---------------------------- MODULE Spec2Model ----------------------------
(***************************************************************************)
(* The Timetable Editor of the AI timetable generator: the App component's *)
(* state (src/App.tsx), the generation request to the external             *)
(* collaborator (src/services/geminiService.ts), the move handler          *)
(* handleMoveClass, and the drag handlers of TimetableDisplay               *)
(* (src/components/TimetableDisplay.tsx).                                  *)
(*                                                                         *)
(* A nullable value (T | null) is the empty tuple Null or the one-element  *)
(* tuple Some(v).  A template literal is the tuple of its parts.           *)
(***************************************************************************)
EXTENDS Integers, Sequences, FiniteSets, TLC

\* ------------------------------------------------------------------ bounds

\* The collaborator's response holds at most MaxClasses class entries.
MaxClasses == 2

\* The "Max classes at once" input is explored up to MaxConcurrent.
MaxConcurrent == 3

\* A grade's count is explored up to MaxGradeCount.
MaxGradeCount == 2

\* The "Time slots per day" input is explored up to MaxSessions.
MaxSessions == 2

\* The "Number of Rooms" input is explored up to MaxRooms.
MaxRooms == 2

\* ------------------------------------------------------------- data model

Null == <<>>

Some(v) == <<v>>

GRADES == 1..5

DAYS_OF_WEEK == <<"Monday", "Tuesday", "Wednesday", "Thursday", "Friday">>

\* NumberInput's default upper limit (max = 20).
WidgetMax == 20

\* The upper limit of the "Time slots per day" input (max={5}).
SessionsMax == 5

\* The upper limit of the "Number of Rooms" input (max={10}).
RoomsMax == 10

\* The class names the collaborator uses in the model: one per grade of the
\* two exclusion pairs, and one that does not match "Grade <digit>".
ClassNames == {"Grade 1 - A", "Grade 2 - A", "Grade 3 - A", "Grade 4 - A", "Music"}

\* The UTF-16 code units of the names' characters, in increasing order.
Alphabet == <<" ", "-", "1", "2", "3", "4", "A", "G", "M", "a", "c", "d", "e", "i", "r", "s", "u">>

Digits == {"0", "1", "2", "3", "4", "5", "6", "7", "8", "9"}

\* A string as the sequence of its characters.
Chars(name) ==
    CASE name = "Grade 1 - A" -> <<"G", "r", "a", "d", "e", " ", "1", " ", "-", " ", "A">>
      [] name = "Grade 2 - A" -> <<"G", "r", "a", "d", "e", " ", "2", " ", "-", " ", "A">>
      [] name = "Grade 3 - A" -> <<"G", "r", "a", "d", "e", " ", "3", " ", "-", " ", "A">>
      [] name = "Grade 4 - A" -> <<"G", "r", "a", "d", "e", " ", "4", " ", "-", " ", "A">>
      [] name = "Music"       -> <<"M", "u", "s", "i", "c">>

CodeUnit(ch) == CHOOSE i \in 1..Len(Alphabet) : Alphabet[i] = ch

\* parseInt(d, 10) of one decimal digit.
ParseDigit(d) ==
    CASE d = "0" -> 0 [] d = "1" -> 1 [] d = "2" -> 2 [] d = "3" -> 3 [] d = "4" -> 4
      [] d = "5" -> 5 [] d = "6" -> 6 [] d = "7" -> 7 [] d = "8" -> 8 [] d = "9" -> 9

\* Whether /Grade (\d)/ matches the characters cs at position i.
GradeMatchAt(cs, i) ==
    /\ i + 6 <= Len(cs)
    /\ SubSeq(cs, i, i + 5) = <<"G", "r", "a", "d", "e", " ">>
    /\ cs[i + 6] \in Digits

\* className.match(/Grade (\d)/): the digit of the leftmost match, or null.
MatchGrade(className) ==
    LET cs == Chars(className)
        at == {i \in 1..Len(cs) : GradeMatchAt(cs, i)}
    IN  IF at = {} THEN Null
        ELSE LET first == CHOOSE i \in at : \A j \in at : i <= j
             IN  Some(ParseDigit(cs[first + 6]))

\* MatchGrade, tabulated over the class names.
GradeTable == [className \in ClassNames |-> MatchGrade(className)]

getGradeFromClassName(className) == GradeTable[className]

\* a < b in the order of Array.prototype.sort() without a comparator:
\* strings by their UTF-16 code units.
RECURSIVE LexLess(_, _)
LexLess(a, b) ==
    IF b = <<>> THEN FALSE
    ELSE IF a = <<>> THEN TRUE
    ELSE IF CodeUnit(Head(a)) # CodeUnit(Head(b)) THEN CodeUnit(Head(a)) < CodeUnit(Head(b))
    ELSE LexLess(Tail(a), Tail(b))

\* LexLess, tabulated over the pairs of class names.
LessTable == [a \in ClassNames, b \in ClassNames |-> LexLess(Chars(a), Chars(b))]

\* Inserts x into the sorted list after every element not greater than it.
RECURSIVE InsertSorted(_, _)
InsertSorted(x, list) ==
    IF list = <<>> THEN <<x>>
    ELSE IF LessTable[x, Head(list)] THEN <<x>> \o list
    ELSE <<Head(list)>> \o InsertSorted(x, Tail(list))

\* list.sort(): a stable sort into increasing order.
RECURSIVE Sort(_)
Sort(list) ==
    IF list = <<>> THEN <<>>
    ELSE InsertSorted(list[Len(list)], Sort(SubSeq(list, 1, Len(list) - 1)))

\* The elements of a list.
Elements(list) == {list[i] : i \in 1..Len(list)}

RoomName(i) == "Room " \o ToString(i)

SlotName(i) == "Slot " \o ToString(i)

\* The slots a move may name as its source or destination: every slot of the
\* configurations below; each timetable has two of them and lacks the third.
ArgCells ==
    {[room |-> "Room 1", day |-> "Monday", slot |-> "Slot 1"],
     [room |-> "Room 2", day |-> "Monday", slot |-> "Slot 1"],
     [room |-> "Room 1", day |-> "Monday", slot |-> "Slot 2"]}

\* ------------------------------------------------------------------ state

VARIABLES
    gradeCounts,            \* GradeCounts
    maxConcurrentClasses,
    sessionsPerDay,
    numberOfRooms,
    includedDays,           \* DayOfWeek[]
    timetable,              \* MultiRoomTimetable | null
    isLoading,
    error,                  \* string | null
    pending,                \* the generateTimetable calls awaiting the collaborator,
                            \* each with whether a timetable was shown at its click
    original,               \* history: of the timetable as generateTimetable returned
                            \* it, the numberOfRooms of its request and how often
                            \* each class name occurs in it; null while there is none
    draggedItem,            \* DraggedItem | null
    dragOverInfo            \* of each mounted TimetableDisplay, by its roomName:
                            \* { day, slot, isValid } | null

vars == <<gradeCounts, maxConcurrentClasses, sessionsPerDay, numberOfRooms,
          includedDays, timetable, isLoading, error, pending, original,
          draggedItem, dragOverInfo>>


\* ----------------------------------------------------- handleMoveClass

\* SameSlot with the last comparison negated.
SameSlot_SlotDiffers(from, to) ==
    from.room = to.room /\ from.day = to.day /\ from.slot # to.slot

\* from.room === to.room && from.day === to.day && from.slot === to.slot
SameSlot(from, to) ==
    from.room = to.room /\ from.day = to.day /\ from.slot = to.slot

\* t[at.room]?.[at.day]?.[at.slot]: the slot's list, or Null where a key is missing.
SlotAt(t, at) ==
    IF /\ at.room \in DOMAIN t
       /\ at.day \in DOMAIN t[at.room]
       /\ at.slot \in DOMAIN t[at.room][at.day]
    THEN Some(t[at.room][at.day][at.slot])
    ELSE Null

\* list.includes(x)
Includes(list, x) == \E i \in 1..Len(list) : list[i] = x

\* FindIndex that answers 1, the first place, where the name is not found.
FindIndex_MissingAsFirst(list, x) ==
    IF Includes(list, x)
    THEN CHOOSE i \in 1..Len(list) : list[i] = x /\ \A j \in 1..(i - 1) : list[j] # x
    ELSE 1

\* list.findIndex(c => c === x), counted from 1; 0 where JavaScript gives -1.
FindIndex(list, x) ==
    IF Includes(list, x)
    THEN CHOOSE i \in 1..Len(list) : list[i] = x /\ \A j \in 1..(i - 1) : list[j] # x
    ELSE 0

\* list.splice(i): without a delete count, everything from i on goes.
Splice_ToEnd(list, i) == SubSeq(list, 1, i - 1)

\* list.splice(i, 1)
Splice(list, i) == SubSeq(list, 1, i - 1) \o SubSeq(list, i + 1, Len(list))

\* toSlotClasses.length > maxConcurrentClasses
AtCapacity_Above(toSlotClasses, max) == Len(toSlotClasses) > max

\* toSlotClasses.length === maxConcurrentClasses
AtCapacity_Exactly(toSlotClasses, max) == Len(toSlotClasses) = max

\* toSlotClasses.length >= maxConcurrentClasses
AtCapacity(toSlotClasses, max) == Len(toSlotClasses) >= max

\* toSlotClasses.map(getGradeFromClassName)
DestinationGrades(toSlotClasses) ==
    [i \in 1..Len(toSlotClasses) |-> getGradeFromClassName(toSlotClasses[i])]

\* The 1/2 rule without its second half.
GradeConflict12_OneWay(movedGrade, destinationGrades) ==
    movedGrade = Some(1) /\ Includes(destinationGrades, Some(2))

GradeConflict12(movedGrade, destinationGrades) ==
    \/ movedGrade = Some(1) /\ Includes(destinationGrades, Some(2))
    \/ movedGrade = Some(2) /\ Includes(destinationGrades, Some(1))

\* The 3/4 rule with a 4 for the 3 of its second half.
GradeConflict34_Typo(movedGrade, destinationGrades) ==
    \/ movedGrade = Some(3) /\ Includes(destinationGrades, Some(4))
    \/ movedGrade = Some(4) /\ Includes(destinationGrades, Some(4))

GradeConflict34(movedGrade, destinationGrades) ==
    \/ movedGrade = Some(3) /\ Includes(destinationGrades, Some(4))
    \/ movedGrade = Some(4) /\ Includes(destinationGrades, Some(3))

\* The template literal of the capacity message.
CapacityMessage(className, to, max) ==
    <<"Cannot move \"", className, "\". The \"", to.slot, "\" slot in ", to.room,
      " on ", to.day, " is full (max ", ToString(max), " classes).">>

Grade12Message == <<"Cannot move: Grade 1 and Grade 2 classes cannot be in the same slot.">>

Grade34Message == <<"Cannot move: Grade 3 and Grade 4 classes cannot be in the same slot.">>

\* JSON.parse(JSON.stringify(t)) of a room -> day -> slot -> string[] value:
\* a new value with the same keys and the same lists.
JsonClone(t) ==
    [r \in DOMAIN t |->
        [d \in DOMAIN t[r] |->
            [s \in DOMAIN t[r][d] |->
                [i \in 1..Len(t[r][d][s]) |-> t[r][d][s][i]]]]]

\* ApplyMove without the splice.
ApplyMove_NoRemoval(newTimetable, className, from, classIndex, to) ==
    [newTimetable EXCEPT ![to.room][to.day][to.slot] = Sort(Append(@, className))]

\* The copy with className spliced out of the source slot at classIndex and
\* pushed onto the destination slot, which is then sorted.
ApplyMove(newTimetable, className, from, classIndex, to) ==
    LET removed == [newTimetable EXCEPT
                      ![from.room][from.day][from.slot] = Splice(@, classIndex)]
    IN  [removed EXCEPT ![to.room][to.day][to.slot] = Sort(Append(@, className))]

\* MoveUpdater without the setError(null) of an applied move.
MoveUpdater_KeepsError(current, err, max, className, from, to) ==
    LET keep == [timetable |-> current, error |-> err]
    IN
    IF current = Null THEN [timetable |-> Null, error |-> err]
    ELSE
    LET toSlot == SlotAt(current[1], to)
    IN
    IF toSlot = Null THEN keep
    ELSE IF Includes(toSlot[1], className) THEN keep
    ELSE IF AtCapacity(toSlot[1], max)
    THEN [timetable |-> current, error |-> Some(CapacityMessage(className, to, max))]
    ELSE IF GradeConflict12(getGradeFromClassName(className), DestinationGrades(toSlot[1]))
    THEN [timetable |-> current, error |-> Some(Grade12Message)]
    ELSE IF GradeConflict34(getGradeFromClassName(className), DestinationGrades(toSlot[1]))
    THEN [timetable |-> current, error |-> Some(Grade34Message)]
    ELSE
    LET newTimetable == JsonClone(current[1])
        fromSlot == SlotAt(newTimetable, from)
    IN
    IF fromSlot = Null THEN keep
    ELSE IF FindIndex(fromSlot[1], className) > 0
    THEN [timetable |-> Some(ApplyMove(newTimetable, className, from,
                                       FindIndex(fromSlot[1], className), to)),
          error |-> err]
    ELSE keep

\* The updater handed to setTimetable, with the setError calls it makes:
\* the next timetable and the next error, from the current ones (both nullable).
MoveUpdater(current, err, max, className, from, to) ==
    LET keep == [timetable |-> current, error |-> err]
    IN
    IF current = Null THEN [timetable |-> Null, error |-> err]
    ELSE
    LET currentTimetable == current[1]
        toSlot == SlotAt(currentTimetable, to)
    IN
    IF toSlot = Null THEN keep
    ELSE
    LET toSlotClasses == toSlot[1]
    IN
    IF Includes(toSlotClasses, className) THEN keep
    ELSE IF AtCapacity(toSlotClasses, max)
    THEN [timetable |-> current, error |-> Some(CapacityMessage(className, to, max))]
    ELSE
    LET movedGrade == getGradeFromClassName(className)
        destinationGrades == DestinationGrades(toSlotClasses)
    IN
    IF GradeConflict12(movedGrade, destinationGrades)
    THEN [timetable |-> current, error |-> Some(Grade12Message)]
    ELSE IF GradeConflict34(movedGrade, destinationGrades)
    THEN [timetable |-> current, error |-> Some(Grade34Message)]
    ELSE
    LET newTimetable == JsonClone(currentTimetable)
        fromSlot == SlotAt(newTimetable, from)
    IN
    IF fromSlot = Null THEN keep
    ELSE
    LET classIndex == FindIndex(fromSlot[1], className)
    IN
    IF classIndex > 0
    THEN [timetable |-> Some(ApplyMove(newTimetable, className, from, classIndex, to)),
          error |-> Null]
    ELSE keep


\* The whole handler: the same-slot return, then setTimetable(updater).
handleMoveClass(current, err, max, className, from, to) ==
    IF SameSlot(from, to)
    THEN [timetable |-> current, error |-> err]
    ELSE MoveUpdater(current, err, max, className, from, to)

\* -------------------------------------------------------- request builder

\* { type: Type.ARRAY, items: { type: Type.STRING } }
SlotSchema == [type |-> "ARRAY", items |-> [type |-> "STRING"]]

\* timeSlotProperties after the loop: one property for each slot name.
TimeSlotProperties(sessions) == [n \in {SlotName(i) : i \in 1..sessions} |-> SlotSchema]

\* RequiredSlots with the names counted from 0.
RequiredSlots_FromZero(sessions) == [i \in 1..sessions |-> SlotName(i - 1)]

\* requiredSlots after the loop.
RequiredSlots(sessions) == [i \in 1..sessions |-> SlotName(i)]

generateSingleRoomResponseSchema(sessions, days) ==
    LET daySchema == [type |-> "OBJECT",
                      properties |-> TimeSlotProperties(sessions),
                      required |-> RequiredSlots(sessions)]
    IN  [type |-> "OBJECT",
         properties |-> [d \in {days[i] : i \in 1..Len(days)} |-> daySchema],
         required |-> days]

generateResponseSchema(sessions, days, rooms) ==
    LET singleRoomSchema == generateSingleRoomResponseSchema(sessions, days)
    IN  [type |-> "OBJECT",
         properties |-> [r \in {RoomName(i) : i \in 1..rooms} |-> singleRoomSchema],
         required |-> [i \in 1..rooms |-> RoomName(i)]]

\* items.join(sep), each item and the result a list of string parts.
RECURSIVE Join(_, _)
Join(items, sep) ==
    IF items = <<>> THEN <<>>
    ELSE IF Len(items) = 1 THEN items[1]
    ELSE items[1] \o <<sep>> \o Join(Tail(items), sep)

\* Object.entries(gradeCounts).map(...).join('\n'): the grades in increasing order.
ClassList(counts) ==
    Join([g \in 1..5 |-> <<"- Grade ", ToString(g), ": ", ToString(counts[g]), " classes">>],
         "\n")

\* Array.from({ length: sessionsPerDay }, (_, i) => `Slot ${i + 1}`).join(', ')
TimeSlotList(sessions) == Join([i \in 1..sessions |-> <<SlotName(i)>>], ", ")

\* includedDays.join(', ')
DayList(days) == Join([i \in 1..Len(days) |-> <<days[i]>>], ", ")

\* The template literal of the brief, as the list of its parts.
generatePrompt(counts, max, sessions, days, rooms) ==
    <<"You are an expert school timetable scheduler. Your task is to create a weekly timetable for a primary school with grades 1 through 5, distributing classes across ",
      ToString(rooms), " available rooms. Here are the constraints: 1. **Classes to Schedule:** ">>
    \o ClassList(counts)
    \o <<" (When you create the schedule, name the classes like \"Grade 1 - A\", \"Grade 1 - B\", \"Grade 2 - A\", etc.) 2. **Schedule Structure:** - There are ",
          ToString(rooms), " rooms available, named \"Room 1\", \"Room 2\", etc. - The week includes only the following days: ">>
    \o DayList(days)
    \o <<". - There are ", ToString(sessions), " available time slots each day: ">>
    \o TimeSlotList(sessions)
    \o <<". 3. **Scheduling Rules:** - Every single class implied by the counts above must be scheduled exactly once across all rooms. - In any single time slot (e.g., Room 1, Monday Slot 1), you cannot schedule more than ",
          ToString(max), " classes in total. - **Crucially, Grade 1 and Grade 2 classes must NEVER be scheduled in the same time slot together in the same room.** - **Similarly, Grade 3 and Grade 4 classes must NEVER be scheduled in the same time slot together in the same room.** - **VERY IMPORTANT ROOM ALLOCATION RULE: You must fill up the schedule for \"Room 1\" as much as possible before assigning any classes to \"Room 2\". Then, fill \"Room 2\" before \"Room 3\", and so on. Follow this sequential filling order strictly.** - Distribute the classes as evenly as possible throughout the week to balance the school's activity, while respecting all other rules. Please provide the generated timetable in the specified JSON format. The output should be a JSON object where the keys are the room names (e.g., \"Room 1\", \"Room 2\").">>

\* What generateTimetable hands to ai.models.generateContent.
Request(args) ==
    [contents |-> generatePrompt(args.gradeCounts, args.maxConcurrentClasses,
                                 args.sessionsPerDay, args.includedDays, args.numberOfRooms),
     responseSchema |-> generateResponseSchema(args.sessionsPerDay, args.includedDays,
                                               args.numberOfRooms)]

\* ------------------------------------------------------------ generation

RECURSIVE SumGrades(_, _)
SumGrades(counts, g) == IF g = 0 THEN 0 ELSE counts[g] + SumGrades(counts, g - 1)

\* Object.values(gradeCounts).reduce((sum, count) => sum + count, 0)
totalClasses == SumGrades(gradeCounts, 5)

maxPossibleClasses ==
    maxConcurrentClasses * Len(includedDays) * sessionsPerDay * numberOfRooms

\* canGenerate without !isLoading.
canGenerate_IgnoresLoading ==
    /\ totalClasses > 0
    /\ Len(includedDays) > 0
    /\ totalClasses <= maxPossibleClasses

\* canGenerate without the comparison with maxPossibleClasses.
canGenerate_NoCapacityCheck ==
    /\ totalClasses > 0
    /\ Len(includedDays) > 0
    /\ ~isLoading

canGenerate ==
    /\ totalClasses > 0
    /\ Len(includedDays) > 0
    /\ totalClasses <= maxPossibleClasses
    /\ ~isLoading

\* The arguments of one generateTimetable call.
GenerateArgs ==
    [gradeCounts |-> gradeCounts, maxConcurrentClasses |-> maxConcurrentClasses,
     sessionsPerDay |-> sessionsPerDay, includedDays |-> includedDays,
     numberOfRooms |-> numberOfRooms]

\* Object.keys(v).length
KeyCount(v) == Cardinality(DOMAIN v)

\* IsExpectedStructure with >= for ===.
IsExpectedStructure_AtLeast(parsedData, rooms) ==
    /\ parsedData.typeof = "object"
    /\ ~parsedData.isNull
    /\ KeyCount(parsedData.value) >= rooms

\* typeof parsedData === 'object' && parsedData !== null
\*   && Object.keys(parsedData).length === numberOfRooms
IsExpectedStructure(parsedData, rooms) ==
    /\ parsedData.typeof = "object"
    /\ ~parsedData.isNull
    /\ KeyCount(parsedData.value) = rooms

InvalidFormatMessage ==
    <<"Invalid timetable format received from API. Expected a structure with rooms.">>

FailedPrefix == "Failed to generate timetable: "

UnknownErrorMessage == <<"An unknown error occurred while generating the timetable.">>

UnexpectedErrorMessage == <<"An unexpected error occurred.">>

\* What the catch block of generateTimetable throws for a caught value.
Rethrow(caught) ==
    IF caught.isError
    THEN [isError |-> TRUE, message |-> <<FailedPrefix>> \o caught.message]
    ELSE [isError |-> TRUE, message |-> UnknownErrorMessage]

\* generateTimetable for one outcome of the collaborator's call: the value
\* returned, or the value thrown.
generateTimetable(args, outcome) ==
    IF outcome.kind = "throws"
    THEN [ok |-> FALSE, thrown |-> Rethrow(outcome.thrown)]
    ELSE IF ~outcome.parses
    THEN [ok |-> FALSE, thrown |-> Rethrow([isError |-> TRUE, message |-> outcome.syntaxError])]
    ELSE IF IsExpectedStructure(outcome.parsedData, args.numberOfRooms)
    THEN [ok |-> TRUE, value |-> outcome.parsedData.value]
    ELSE [ok |-> FALSE, thrown |-> Rethrow([isError |-> TRUE, message |-> InvalidFormatMessage])]

\* The lists of at most n class names.
ListsUpTo(n) == UNION {[1..k -> ClassNames] : k \in 0..n}

\* The ways to fill `cells` slots with at most `budget` class entries in all.
RECURSIVE Fillings(_, _)
Fillings(cells, budget) ==
    IF cells = 0 THEN {<<>>}
    ELSE UNION {{<<list>> \o rest : rest \in Fillings(cells - 1, budget - Len(list))} :
                list \in ListsUpTo(budget)}

\* The value with rooms "Room 1".."Room k", the requested days and slots, and
\* the slots' lists taken from `filling` in room, day, slot order.
Shaped(k, days, sessions, filling) ==
    [r \in {RoomName(i) : i \in 1..k} |->
        [d \in {days[i] : i \in 1..Len(days)} |->
            [s \in {SlotName(i) : i \in 1..sessions} |->
                LET ri == CHOOSE i \in 1..k : RoomName(i) = r
                    di == CHOOSE i \in 1..Len(days) : days[i] = d
                    si == CHOOSE i \in 1..sessions : SlotName(i) = s
                IN  filling[((ri - 1) * Len(days) + (di - 1)) * sessions + si]]]]

\* The objects the collaborator may answer a request with: the schema's days
\* and slots, any lists of class names, and up to one room more than requested.
ResponseObjects(args) ==
    UNION {{Shaped(k, args.includedDays, args.sessionsPerDay, filling) :
               filling \in Fillings(k * Len(args.includedDays) * args.sessionsPerDay,
                                    MaxClasses)} :
           k \in 0..(args.numberOfRooms + 1)}

\* The outcomes of ai.models.generateContent and JSON.parse(response.text.trim()).
Outcomes(args) ==
    {[kind |-> "throws", thrown |-> [isError |-> TRUE, message |-> <<"fetch failed">>]],
     [kind |-> "throws", thrown |-> [isError |-> FALSE, message |-> <<>>]],
     [kind |-> "text", parses |-> FALSE, syntaxError |-> <<"Unexpected end of JSON input">>],
     [kind |-> "text", parses |-> TRUE,
      parsedData |-> [typeof |-> "object", isNull |-> TRUE, value |-> <<>>]],
     [kind |-> "text", parses |-> TRUE,
      parsedData |-> [typeof |-> "number", isNull |-> FALSE, value |-> <<>>]]}
    \cup {[kind |-> "text", parses |-> TRUE,
           parsedData |-> [typeof |-> "object", isNull |-> FALSE, value |-> t]] :
          t \in ResponseObjects(args)}

\* The objects of the requested shape, or with a room less or more, whose
\* lists are all empty.
EmptyResponses(args) ==
    {Shaped(k, args.includedDays, args.sessionsPerDay,
            [i \in 1..(k * Len(args.includedDays) * args.sessionsPerDay) |-> <<>>]) :
     k \in (args.numberOfRooms - 1)..(args.numberOfRooms + 1)}

\* The outcomes of the collaborator's call that schedule no class.
EmptyOutcomes(args) ==
    {[kind |-> "throws", thrown |-> [isError |-> TRUE, message |-> <<"fetch failed">>]],
     [kind |-> "throws", thrown |-> [isError |-> FALSE, message |-> <<>>]],
     [kind |-> "text", parses |-> FALSE, syntaxError |-> <<"Unexpected end of JSON input">>]}
    \cup {[kind |-> "text", parses |-> TRUE,
           parsedData |-> [typeof |-> "object", isNull |-> FALSE, value |-> t]] :
          t \in EmptyResponses(args)}

\* How often className occurs in the slots of timetable t.
RECURSIVE CountIn(_, _)
CountIn(list, className) ==
    IF list = <<>> THEN 0
    ELSE (IF Head(list) = className THEN 1 ELSE 0) + CountIn(Tail(list), className)

\* The slots of t, as (room, day, slot) records.
SlotsOf(t) ==
    UNION {UNION {{[room |-> r, day |-> d, slot |-> s] : s \in DOMAIN t[r][d]} :
                  d \in DOMAIN t[r]} :
           r \in DOMAIN t}


RECURSIVE SumCounts(_, _, _)
SumCounts(t, slots, className) ==
    IF slots = {} THEN 0
    ELSE LET at == CHOOSE x \in slots : TRUE
         IN  CountIn(t[at.room][at.day][at.slot], className)
               + SumCounts(t, slots \ {at}, className)

\* How often className occurs in the whole of timetable t.
Occurrences(t, className) == SumCounts(t, SlotsOf(t), className)

\* ---------------------------------------------------------------- actions

\* The values a NumberInput showing `value` can hand to onValueChange: the
\* increment, the decrement, and a typed number clamped into min..max.
NumberInputValues(value, min, max) ==
    {v \in {value + 1} : value < max}
      \cup {v \in {value - 1} : value > min}
      \cup min..max

\* The configurations the user has entered before the first generation:
\* one class each of grades 1 to 3, and two slots in all.
Configurations ==
    {[gradeCounts |-> [g \in GRADES |-> IF g <= 3 THEN 1 ELSE 0],
      sessionsPerDay |-> c[1], numberOfRooms |-> c[2], includedDays |-> c[3]] :
     c \in {<<2, 1, <<"Monday">>>>, <<1, 2, <<"Monday">>>>}}

Init ==
    /\ \E c \in Configurations :
          /\ gradeCounts = c.gradeCounts
          /\ sessionsPerDay = c.sessionsPerDay
          /\ numberOfRooms = c.numberOfRooms
          /\ includedDays = c.includedDays
    /\ maxConcurrentClasses = 3
    /\ timetable = Null
    /\ isLoading = FALSE
    /\ error = Null
    /\ pending = <<>>
    /\ original = Null
    /\ draggedItem = Null
    /\ dragOverInfo = <<>>

\* onValueChange of the "Max classes at once" input (min = 1).
SetMaxConcurrentClasses(v) ==
    /\ v \in NumberInputValues(maxConcurrentClasses, 1, WidgetMax)
    /\ v <= MaxConcurrent
    /\ maxConcurrentClasses' = v
    /\ UNCHANGED <<gradeCounts, sessionsPerDay, numberOfRooms, includedDays,
                   timetable, isLoading, error, pending, original,
                   draggedItem, dragOverInfo>>

\* HandleGenerateClick without setTimetable(null).
HandleGenerateClick_KeepsTimetable ==
    /\ canGenerate
    /\ isLoading' = TRUE
    /\ error' = Null
    /\ timetable' = timetable
    /\ pending' = Append(pending, [args |-> GenerateArgs, shown |-> timetable # Null])
    /\ original' = original
    /\ UNCHANGED <<gradeCounts, maxConcurrentClasses, sessionsPerDay, numberOfRooms,
                   includedDays, draggedItem, dragOverInfo>>

\* handleGenerateClick up to the await.
HandleGenerateClick ==
    /\ canGenerate
    /\ isLoading' = TRUE
    /\ error' = Null
    /\ timetable' = Null
    /\ pending' = Append(pending, [args |-> GenerateArgs, shown |-> timetable # Null])
    /\ original' = Null
    /\ dragOverInfo' = <<>>
    /\ UNCHANGED <<gradeCounts, maxConcurrentClasses, sessionsPerDay, numberOfRooms,
                   includedDays, draggedItem>>

\* handleGenerateClick from the await on: call i returns or throws.
GenerateSettles(i, outcome) ==
    LET result == generateTimetable(pending[i].args, outcome)
    IN  /\ IF result.ok
           THEN /\ timetable' = Some(result.value)
                /\ error' = error
                /\ original' = Some([numberOfRooms |-> pending[i].args.numberOfRooms,
                                      counts |-> [n \in ClassNames |->
                                                    Occurrences(result.value, n)]])
                /\ dragOverInfo' = [r \in DOMAIN result.value |-> Null]
           ELSE /\ timetable' = timetable
                /\ dragOverInfo' = dragOverInfo
                /\ error' = Some(IF result.thrown.isError
                                 THEN result.thrown.message
                                 ELSE UnexpectedErrorMessage)
                /\ original' = original
        /\ isLoading' = FALSE
        /\ pending' = SubSeq(pending, 1, i - 1) \o SubSeq(pending, i + 1, Len(pending))
        /\ UNCHANGED <<gradeCounts, maxConcurrentClasses, sessionsPerDay, numberOfRooms,
                       includedDays, draggedItem>>

HandleMoveClass(className, from, to) ==
    LET next == handleMoveClass(timetable, error, maxConcurrentClasses, className, from, to)
    IN  /\ timetable' = next.timetable
        /\ error' = next.error
        /\ UNCHANGED <<gradeCounts, maxConcurrentClasses, sessionsPerDay, numberOfRooms,
                       includedDays, isLoading, pending, original,
                       draggedItem, dragOverInfo>>

Next ==
    \/ \E v \in 1..MaxConcurrent : SetMaxConcurrentClasses(v)
    \/ HandleGenerateClick
    \/ \E i \in 1..Len(pending) : \E outcome \in Outcomes(pending[i].args) :
          GenerateSettles(i, outcome)
    \/ \E className \in ClassNames : \E from \in ArgCells : \E to \in ArgCells :
          HandleMoveClass(className, from, to)

Spec == Init /\ [][Next]_vars

\* ------------------------------------------------- configuration handlers

\* The grades whose count the user edits in the model.
EditedGrades == {5}

\* The days the user toggles in the model.
ToggledDays == {"Monday", "Tuesday"}

\* DAYS_OF_WEEK.indexOf(day), counted from 1.
DayIndex(day) == CHOOSE i \in 1..Len(DAYS_OF_WEEK) : DAYS_OF_WEEK[i] = day

\* prev.filter(d => d !== day)
RECURSIVE Without(_, _)
Without(days, day) ==
    IF days = <<>> THEN <<>>
    ELSE IF Head(days) = day THEN Without(Tail(days), day)
    ELSE <<Head(days)>> \o Without(Tail(days), day)

\* Inserts day into the sorted list after every day that is not later in the week.
RECURSIVE InsertDay(_, _)
InsertDay(day, days) ==
    IF days = <<>> THEN <<day>>
    ELSE IF DayIndex(day) < DayIndex(Head(days)) THEN <<day>> \o days
    ELSE <<Head(days)>> \o InsertDay(day, Tail(days))

\* newDays.sort((a, b) => DAYS_OF_WEEK.indexOf(a) - DAYS_OF_WEEK.indexOf(b))
RECURSIVE SortDays(_)
SortDays(days) ==
    IF days = <<>> THEN <<>>
    ELSE InsertDay(days[Len(days)], SortDays(SubSeq(days, 1, Len(days) - 1)))

\* The updater handed to setIncludedDays.
ToggleDay(prev, day) ==
    SortDays(IF Includes(prev, day) THEN Without(prev, day) ELSE Append(prev, day))

\* onValueChange of a grade's input (min = 0, the default, and max = 20).
HandleGradeCountChange(grade, count) ==
    /\ count \in NumberInputValues(gradeCounts[grade], 0, WidgetMax)
    /\ count <= MaxGradeCount
    /\ gradeCounts' = [gradeCounts EXCEPT ![grade] = count]
    /\ UNCHANGED <<maxConcurrentClasses, sessionsPerDay, numberOfRooms, includedDays,
                   timetable, isLoading, error, pending, original,
                   draggedItem, dragOverInfo>>

HandleDayToggle(day) ==
    /\ includedDays' = ToggleDay(includedDays, day)
    /\ UNCHANGED <<gradeCounts, maxConcurrentClasses, sessionsPerDay, numberOfRooms,
                   timetable, isLoading, error, pending, original,
                   draggedItem, dragOverInfo>>

\* onValueChange of the "Time slots per day" input (min = 1, max = 5).
SetSessionsPerDay(v) ==
    /\ v \in NumberInputValues(sessionsPerDay, 1, SessionsMax)
    /\ v <= MaxSessions
    /\ sessionsPerDay' = v
    /\ UNCHANGED <<gradeCounts, maxConcurrentClasses, numberOfRooms, includedDays,
                   timetable, isLoading, error, pending, original,
                   draggedItem, dragOverInfo>>

\* onValueChange of the "Number of Rooms" input (min = 1, max = 10).
SetNumberOfRooms(v) ==
    /\ v \in NumberInputValues(numberOfRooms, 1, RoomsMax)
    /\ v <= MaxRooms
    /\ numberOfRooms' = v
    /\ UNCHANGED <<gradeCounts, maxConcurrentClasses, sessionsPerDay, includedDays,
                   timetable, isLoading, error, pending, original,
                   draggedItem, dragOverInfo>>

\* The state after construction, once the user has switched Wednesday,
\* Thursday and Friday off.
InitGenerate ==
    /\ gradeCounts = [g \in GRADES |-> 0]
    /\ maxConcurrentClasses = 3
    /\ sessionsPerDay = 2
    /\ numberOfRooms = 1
    /\ includedDays = ToggleDay(ToggleDay(ToggleDay(DAYS_OF_WEEK, "Wednesday"),
                                          "Thursday"), "Friday")
    /\ timetable = Null
    /\ isLoading = FALSE
    /\ error = Null
    /\ pending = <<>>
    /\ original = Null
    /\ draggedItem = Null
    /\ dragOverInfo = <<>>

\* The configuration handlers and the generation, with answers that
\* schedule no class.
NextGenerate ==
    \/ \E grade \in EditedGrades : \E count \in 0..MaxGradeCount :
          HandleGradeCountChange(grade, count)
    \/ \E day \in ToggledDays : HandleDayToggle(day)
    \/ \E v \in 1..MaxConcurrent : SetMaxConcurrentClasses(v)
    \/ \E v \in 1..MaxSessions : SetSessionsPerDay(v)
    \/ \E v \in 1..MaxRooms : SetNumberOfRooms(v)
    \/ HandleGenerateClick
    \/ \E i \in 1..Len(pending) : \E outcome \in EmptyOutcomes(pending[i].args) :
          GenerateSettles(i, outcome)

SpecGenerate == InitGenerate /\ [][NextGenerate]_vars

\* ---------------------------------------------------------- drag and drop

\* Array.from({ length: sessionsPerDay }, (_, i) => `Slot ${i + 1}`)
timeSlots == [i \in 1..sessionsPerDay |-> SlotName(i)]

\* The cells on the page: in the TimetableDisplay of each room of the
\* timetable, one for each time slot and included day.
RenderedCells ==
    IF timetable = Null THEN {}
    ELSE {[room |-> r, day |-> d, slot |-> sl] :
          r \in DOMAIN timetable[1], d \in Elements(includedDays), sl \in Elements(timeSlots)}

\* isValidDrop of handleDragOver: !atCapacity && !coSchedulingConflict.
IsValidDrop(destinationSlot, className, max) ==
    LET atCapacity == Len(destinationSlot) >= max
        movedGrade == getGradeFromClassName(className)
        destinationGrades == DestinationGrades(destinationSlot)
        hasGrade1 == Includes(destinationGrades, Some(1))
        hasGrade2 == Includes(destinationGrades, Some(2))
        hasGrade3 == Includes(destinationGrades, Some(3))
        hasGrade4 == Includes(destinationGrades, Some(4))
        coSchedulingConflict ==
            \/ movedGrade = Some(1) /\ hasGrade2
            \/ movedGrade = Some(2) /\ hasGrade1
            \/ movedGrade = Some(3) /\ hasGrade4
            \/ movedGrade = Some(4) /\ hasGrade3
    IN  ~atCapacity /\ ~coSchedulingConflict

\* handleDragOver of the TimetableDisplay of room roomName, whose props are
\* the room's timetable, the dragged item and max: its next dragOverInfo.
handleDragOver(info, item, roomName, roomTimetable, max, day, slot) ==
    IF item = Null THEN info
    ELSE IF item[1].from.room = roomName /\ item[1].from.day = day /\ item[1].from.slot = slot
    THEN Null
    ELSE IF info # Null /\ info[1].day = day /\ info[1].slot = slot THEN info
    ELSE IF day \in DOMAIN roomTimetable /\ slot \in DOMAIN roomTimetable[day]
    THEN Some([day |-> day, slot |-> slot,
               isValid |-> IsValidDrop(roomTimetable[day][slot], item[1].className, max)])
    ELSE info

\* Whether handleDrop in the TimetableDisplay of `room` calls onMoveClass:
\* draggedItem && dragOverInfo?.isValid.
DropForwards(room) ==
    /\ draggedItem # Null
    /\ dragOverInfo[room] # Null
    /\ dragOverInfo[room][1].isValid

\* onDragStart of the tag of className in a rendered cell.
HandleClassDragStart(className, room, day, slot) ==
    /\ [room |-> room, day |-> day, slot |-> slot] \in RenderedCells
    /\ SlotAt(timetable[1], [room |-> room, day |-> day, slot |-> slot]) # Null
    /\ Includes(timetable[1][room][day][slot], className)
    /\ error' = Null
    /\ draggedItem' = Some([className |-> className,
                            from |-> [room |-> room, day |-> day, slot |-> slot]])
    /\ UNCHANGED <<gradeCounts, maxConcurrentClasses, sessionsPerDay, numberOfRooms,
                   includedDays, timetable, isLoading, pending, original, dragOverInfo>>

\* onDragEnd of a TimetableDisplay.
HandleDragEnd ==
    /\ timetable # Null
    /\ DOMAIN timetable[1] # {}
    /\ draggedItem' = Null
    /\ UNCHANGED <<gradeCounts, maxConcurrentClasses, sessionsPerDay, numberOfRooms,
                   includedDays, timetable, isLoading, error, pending, original,
                   dragOverInfo>>

\* onDragOver of a rendered cell.
HandleDragOver(room, day, slot) ==
    /\ [room |-> room, day |-> day, slot |-> slot] \in RenderedCells
    /\ dragOverInfo' =
          [dragOverInfo EXCEPT ![room] =
              handleDragOver(@, draggedItem, room, timetable[1][room],
                             maxConcurrentClasses, day, slot)]
    /\ UNCHANGED <<gradeCounts, maxConcurrentClasses, sessionsPerDay, numberOfRooms,
                   includedDays, timetable, isLoading, error, pending, original,
                   draggedItem>>

\* onDragLeave of a rendered cell of `room`.
HandleDragLeave(room) ==
    /\ \E cell \in RenderedCells : cell.room = room
    /\ dragOverInfo' = [dragOverInfo EXCEPT ![room] = Null]
    /\ UNCHANGED <<gradeCounts, maxConcurrentClasses, sessionsPerDay, numberOfRooms,
                   includedDays, timetable, isLoading, error, pending, original,
                   draggedItem>>

\* onDrop of a rendered cell: onMoveClass where the item and the cached
\* verdict allow, then setDragOverInfo(null).
HandleDrop(room, toDay, toSlot) ==
    /\ [room |-> room, day |-> toDay, slot |-> toSlot] \in RenderedCells
    /\ LET next == IF DropForwards(room)
                   THEN handleMoveClass(timetable, error, maxConcurrentClasses,
                                        draggedItem[1].className, draggedItem[1].from,
                                        [room |-> room, day |-> toDay, slot |-> toSlot])
                   ELSE [timetable |-> timetable, error |-> error]
       IN  /\ timetable' = next.timetable
           /\ error' = next.error
    /\ dragOverInfo' = [dragOverInfo EXCEPT ![room] = Null]
    /\ UNCHANGED <<gradeCounts, maxConcurrentClasses, sessionsPerDay, numberOfRooms,
                   includedDays, isLoading, pending, original, draggedItem>>

\* The timetables generateTimetable returns for a request.
GeneratedTimetables(args) ==
    {t \in ResponseObjects(args) : KeyCount(t) = args.numberOfRooms}

\* The state once a generation has succeeded.
InitDrag ==
    /\ \E c \in Configurations :
          /\ gradeCounts = c.gradeCounts
          /\ sessionsPerDay = c.sessionsPerDay
          /\ numberOfRooms = c.numberOfRooms
          /\ includedDays = c.includedDays
    /\ maxConcurrentClasses = 3
    /\ \E t \in GeneratedTimetables(GenerateArgs) :
          /\ timetable = Some(t)
          /\ original = Some([numberOfRooms |-> numberOfRooms,
                               counts |-> [n \in ClassNames |-> Occurrences(t, n)]])
          /\ dragOverInfo = [r \in DOMAIN t |-> Null]
    /\ isLoading = FALSE
    /\ error = Null
    /\ pending = <<>>
    /\ draggedItem = Null

\* The drag events of the page, in any order, and the "Max classes at once"
\* input.
NextDrag ==
    \/ \E className \in ClassNames : \E cell \in ArgCells :
          HandleClassDragStart(className, cell.room, cell.day, cell.slot)
    \/ \E cell \in ArgCells : HandleDragOver(cell.room, cell.day, cell.slot)
    \/ \E cell \in ArgCells : HandleDragLeave(cell.room)
    \/ \E cell \in ArgCells : HandleDrop(cell.room, cell.day, cell.slot)
    \/ HandleDragEnd
    \/ \E v \in 1..MaxConcurrent : SetMaxConcurrentClasses(v)

SpecDrag == InitDrag /\ [][NextDrag]_vars


\* ------------------------------------------------------------ properties

\* The state handleMoveClass(className, from, to) leaves, called now.
After(className, from, to) ==
    handleMoveClass(timetable, error, maxConcurrentClasses, className, from, to)

\* The list of slot `at` in the nullable timetable tt.
ListAt(tt, at) == tt[1][at.room][at.day][at.slot]

\* The grades (1 to 9, or none) of the names in a list.
HasGrade(list, g) == \E i \in 1..Len(list) : getGradeFromClassName(list[i]) = Some(g)

Clash(list) ==
    \/ HasGrade(list, 1) /\ HasGrade(list, 2)
    \/ HasGrade(list, 3) /\ HasGrade(list, 4)

\* Whether the handler applied the move: it replaced the timetable.
Accepted(className, from, to) == After(className, from, to).timetable # timetable

\* C1 as stated: in every state reached after a move, accepted or rejected,
\* every slot holds at most maxConcurrentClasses class names.
C1_AfterMoveWithinCapacity ==
    \A className \in ClassNames : \A from \in ArgCells : \A to \in ArgCells :
        LET after == After(className, from, to).timetable
        IN  after # Null =>
                \A at \in SlotsOf(after[1]) : Len(ListAt(after, at)) <= maxConcurrentClasses

\* C1, amended: a move never fills a slot beyond the maximum: in every state
\* reached after a move, every slot holds at most maxConcurrentClasses class
\* names or no more names than it held before the move.
C1_MoveNeverOverfills ==
    \A className \in ClassNames : \A from \in ArgCells : \A to \in ArgCells :
        LET after == After(className, from, to).timetable
        IN  after # Null =>
                \A at \in SlotsOf(after[1]) :
                    \/ Len(ListAt(after, at)) <= maxConcurrentClasses
                    \/ Len(ListAt(after, at)) <= Len(ListAt(timetable, at))

\* An accepted move fills its destination to the maximum exactly, in a
\* timetable where another slot is over the maximum.
C1_Witness ==
    \E className \in ClassNames : \E from \in ArgCells : \E to \in ArgCells :
        /\ Accepted(className, from, to)
        /\ Len(ListAt(After(className, from, to).timetable, to)) = maxConcurrentClasses
        /\ Len(ListAt(timetable, from)) > maxConcurrentClasses

\* C2 as stated: after any sequence of moves no slot holds a grade-1 class
\* with a grade-2 class, nor a grade-3 class with a grade-4 class.
C2_AfterMoveNoClash ==
    \A className \in ClassNames : \A from \in ArgCells : \A to \in ArgCells :
        LET after == After(className, from, to).timetable
        IN  after # Null => \A at \in SlotsOf(after[1]) : ~Clash(ListAt(after, at))

\* C2, amended: a move never brings a grade-1 class together with a grade-2
\* class, nor a grade-3 class with a grade-4 class: every slot that holds such
\* a pair after a move held one before it.
C2_MoveNeverClashes ==
    \A className \in ClassNames : \A from \in ArgCells : \A to \in ArgCells :
        LET after == After(className, from, to).timetable
        IN  after # Null =>
                \A at \in SlotsOf(after[1]) :
                    Clash(ListAt(after, at)) => Clash(ListAt(timetable, at))

\* A grade-2 class is moved, accepted, into a slot that holds a grade-3 class,
\* while moving the grade-1 class there is refused.
C2_Witness ==
    \E from \in ArgCells : \E to \in ArgCells :
        /\ Accepted("Grade 2 - A", from, to)
        /\ HasGrade(ListAt(timetable, to), 3)
        /\ HasGrade(ListAt(After("Grade 2 - A", from, to).timetable, to), 2)
        /\ \E other \in ArgCells :
              /\ ~SameSlot(other, from)
              /\ After("Grade 1 - A", other, from).error = Some(Grade12Message)

\* C3: after any number of moves, accepted or rejected, every class name
\* occurs in the timetable as often as in the timetable as generated.
C3_ClassConservation ==
    timetable # Null =>
        \A n \in ClassNames : Occurrences(timetable[1], n) = original[1].counts[n]

\* A class that the timetable holds twice, in one slot, is moved and accepted.
C3_Witness ==
    \E className \in ClassNames : \E from \in ArgCells : \E to \in ArgCells :
        /\ Accepted(className, from, to)
        /\ original[1].counts[className] = 2
        /\ CountIn(ListAt(timetable, from), className) = 2


\* C4: a move between different slots, into a slot that holds at least
\* maxConcurrentClasses names and not the moved one, leaves the timetable as
\* it was and surfaces the capacity message, which names the slot, the room
\* and the day, whatever the grades.
C4_CapacityRejection ==
    timetable # Null =>
        \A className \in ClassNames : \A from \in ArgCells : \A to \in ArgCells :
            (/\ ~(from = to)
             /\ SlotAt(timetable[1], to) # Null
             /\ Len(ListAt(timetable, to)) >= maxConcurrentClasses
             /\ \A i \in 1..Len(ListAt(timetable, to)) : ListAt(timetable, to)[i] # className)
            => LET after == After(className, from, to)
               IN  /\ after.timetable = timetable
                   /\ after.error # Null
                   /\ Len(after.error[1]) = 11
                   /\ after.error[1][2] = className
                   /\ after.error[1][4] = to.slot
                   /\ after.error[1][6] = to.room
                   /\ after.error[1][8] = to.day
                   /\ after.error[1][9] = " is full (max "

\* A slot is full, and a class of a grade that fits in with its names is
\* refused there with a message.
C4_Witness ==
    /\ timetable # Null
    /\ error = Null
    /\ \E from \in ArgCells : \E to \in ArgCells :
          /\ from # to
          /\ SlotAt(timetable[1], from) # Null
          /\ SlotAt(timetable[1], to) # Null
          /\ Includes(ListAt(timetable, from), "Music")
          /\ ListAt(timetable, to) = <<"Grade 1 - A">>
          /\ maxConcurrentClasses = 1
          /\ After("Music", from, to).error # Null

\* The class names of grade g.
OfGrade(g) == {n \in ClassNames : getGradeFromClassName(n) = Some(g)}

C6_RelocationLeavesSource ==
    \A className \in ClassNames : \A from \in ArgCells : \A to \in ArgCells :
        (from # to /\ Accepted(className, from, to)) =>
            LET after == After(className, from, to).timetable
            IN  /\ Includes(ListAt(after, to), className)
                /\ ~Includes(ListAt(after, from), className)
                /\ SlotsOf(after[1]) = SlotsOf(timetable[1])
                /\ \A at \in SlotsOf(after[1]) \ {from, to} :
                      ListAt(after, at) = ListAt(timetable, at)

\* C6, amended: after an accepted move between different slots the name is
\* in the destination's list, which has grown by it, the source's list has
\* lost its first occurrence of the name and nothing else (so it lacks the
\* name where it held it once), and every other slot has the list it had.
C6_Relocation ==
    \A className \in ClassNames : \A from \in ArgCells : \A to \in ArgCells :
        (from # to /\ Accepted(className, from, to)) =>
            LET after == After(className, from, to).timetable
                source == ListAt(timetable, from)
            IN  /\ Includes(ListAt(after, to), className)
                /\ Len(ListAt(after, to)) = Len(ListAt(timetable, to)) + 1
                /\ \A n \in ClassNames :
                      CountIn(ListAt(after, to), n)
                          = CountIn(ListAt(timetable, to), n) + (IF n = className THEN 1 ELSE 0)
                /\ \E i \in 1..Len(source) :
                      /\ source[i] = className
                      /\ \A j \in 1..(i - 1) : source[j] # className
                      /\ ListAt(after, from)
                           = [j \in 1..(Len(source) - 1) |->
                                 IF j < i THEN source[j] ELSE source[j + 1]]
                /\ (CountIn(source, className) = 1 => ~Includes(ListAt(after, from), className))
                /\ SlotsOf(after[1]) = SlotsOf(timetable[1])
                /\ \A at \in SlotsOf(after[1]) \ {from, to} :
                      ListAt(after, at) = ListAt(timetable, at)

\* A class is moved, accepted, out of a two-name slot in which it comes second.
C6_Witness ==
    \E className \in ClassNames : \E from \in ArgCells : \E to \in ArgCells :
        /\ from # to
        /\ Accepted(className, from, to)
        /\ Len(ListAt(timetable, from)) = 2
        /\ ListAt(timetable, from)[2] = className
        /\ ListAt(timetable, from)[1] # className

\* C7: a move whose source and destination are the same room, day and slot
\* leaves the timetable and the error message as they are.
C7_SameSlotNoOp ==
    \A className \in ClassNames : \A at \in ArgCells :
        After(className, at, at) = [timetable |-> timetable, error |-> error]

\* A full slot holds a class; moving that class onto it changes nothing,
\* where moving another class there from elsewhere is refused with a message.
C7_Witness ==
    /\ timetable # Null
    /\ error = Null
    /\ \E className \in ClassNames : \E at \in ArgCells : \E from \in ArgCells :
          /\ SlotAt(timetable[1], at) # Null
          /\ Includes(ListAt(timetable, at), className)
          /\ AtCapacity(ListAt(timetable, at), maxConcurrentClasses)
          /\ \E other \in ClassNames : After(other, from, at).error # Null


ContentFailureMessage == <<FailedPrefix>> \o InvalidFormatMessage

\* C8: an answer that is an object whose key count differs from the
\* numberOfRooms of its request is rejected with the content-validation
\* message, and the timetable is absent or has as many top-level keys as the
\* numberOfRooms of the request that produced it.
C8_KeyCountValidated ==
    /\ \A i \in 1..Len(pending) : \A outcome \in Outcomes(pending[i].args) :
          (/\ outcome.kind = "text"
           /\ outcome.parses
           /\ outcome.parsedData.typeof = "object"
           /\ ~outcome.parsedData.isNull
           /\ KeyCount(outcome.parsedData.value) # pending[i].args.numberOfRooms)
          => generateTimetable(pending[i].args, outcome)
               = [ok |-> FALSE,
                  thrown |-> [isError |-> TRUE, message |-> ContentFailureMessage]]
    /\ timetable # Null => KeyCount(timetable[1]) = original[1].numberOfRooms

\* A request for two rooms has ended in the content-validation message.
C8_Witness ==
    /\ numberOfRooms = 2
    /\ error = Some(ContentFailureMessage)
    /\ ~isLoading

\* A generation request has just ended in a content-validation failure.
ContentFailureStep ==
    /\ isLoading
    /\ ~isLoading'
    /\ error' = Some(ContentFailureMessage)

\* C9 as stated: the timetable held when the request was triggered is the
\* timetable held after its content-validation failure; so where a timetable
\* was shown at the click, one is shown after the failure.
C9_FailureKeepsShownTimetable ==
    [][ContentFailureStep => (pending[1].shown => timetable' # Null)]_vars

\* C9, amended: a content-validation failure leaves the timetable as it was
\* while the request was outstanding, which is absent: the click discarded
\* the timetable held before, and the failure shows none, whole or partial.
C9_FailureLeavesNoTimetable ==
    [][ContentFailureStep => (timetable = Null /\ timetable' = Null)]_vars

\* A request for one room has ended in a content-validation failure.
C9_Witness ==
    /\ numberOfRooms = 1
    /\ error = Some(ContentFailureMessage)
    /\ timetable = Null
    /\ pending = <<>>

\* C10: at most one generateTimetable call is outstanding, and one is exactly
\* while isLoading; the click that starts it is refused while isLoading; and
\* the step that ends it leaves isLoading false, no call outstanding, and
\* either a timetable and no error message or an error message and no
\* timetable.
C10_NoReentrantGeneration ==
    /\ [](Len(pending) <= 1 /\ (isLoading <=> Len(pending) = 1))
    /\ [][/\ Len(pending') > Len(pending) => ~isLoading
          /\ Len(pending') < Len(pending) =>
                /\ ~isLoading'
                /\ pending' = <<>>
                /\ (timetable' # Null) # (error' # Null)]_vars

\* A call is outstanding and the click is refused.
C10_Witness ==
    /\ isLoading
    /\ Len(pending) = 1
    /\ ~canGenerate
    /\ totalClasses <= maxPossibleClasses

\* C13: a move never partially applies.  After any call, on any timetable,
\* either the timetable is the one before the call (neither the removal nor
\* the insertion happened), or the `from` slot has lost one occurrence of
\* className, the `to` slot has gained one, and no other name's count nor any
\* other slot has changed.  Where className is absent from the `from` slot,
\* or the `from` or the `to` room, day or slot does not exist, the timetable
\* after the call is the one before it.
C13_NoPartialMove ==
    \A className \in ClassNames : \A from \in ArgCells : \A to \in ArgCells :
        LET after == After(className, from, to).timetable
            structural ==
                \/ SlotAt(timetable[1], to) = Null
                \/ SlotAt(timetable[1], from) = Null
                \/ ~Includes(ListAt(timetable, from), className)
        IN  /\ timetable = Null => after = Null
            /\ timetable # Null =>
                  /\ after # Null
                  /\ structural => after = timetable
                  /\ \/ after = timetable
                     \/ /\ from # to
                        /\ SlotsOf(after[1]) = SlotsOf(timetable[1])
                        /\ \A n \in ClassNames :
                              /\ CountIn(ListAt(after, from), n)
                                    = CountIn(ListAt(timetable, from), n)
                                        - (IF n = className THEN 1 ELSE 0)
                              /\ CountIn(ListAt(after, to), n)
                                    = CountIn(ListAt(timetable, to), n)
                                        + (IF n = className THEN 1 ELSE 0)
                        /\ \A at \in SlotsOf(after[1]) \ {from, to} :
                              ListAt(after, at) = ListAt(timetable, at)

\* The timetable lacks one of the slots a move may name, and holds a class in
\* one slot and none in the other: moving that class out of the slot where it
\* is not, into or out of the slot that does not exist, changes nothing, and
\* moving it out of the slot where it is, is applied.
C13_Witness ==
    /\ timetable # Null
    /\ \E className \in ClassNames : \E here \in ArgCells : \E there \in ArgCells :
        \E missing \in ArgCells :
          /\ SlotAt(timetable[1], here) # Null
          /\ SlotAt(timetable[1], there) # Null
          /\ SlotAt(timetable[1], missing) = Null
          /\ ListAt(timetable, here) = <<className>>
          /\ ListAt(timetable, there) = <<>>
          /\ After(className, there, here).timetable = timetable
          /\ After(className, here, missing).timetable = timetable
          /\ After(className, missing, there).timetable = timetable
          /\ Accepted(className, here, there)

\* Whether the capacity rule or a grade rule blocks the move: the destination
\* exists and lacks the name, and is full or holds a class of the grade that
\* excludes the moved one.
RuleBlocks(className, from, to) ==
    /\ timetable # Null
    /\ from # to
    /\ SlotAt(timetable[1], to) # Null
    /\ LET list == ListAt(timetable, to)
       IN  /\ \A i \in 1..Len(list) : list[i] # className
           /\ \/ Len(list) >= maxConcurrentClasses
              \/ className \in OfGrade(1) /\ HasGrade(list, 2)
              \/ className \in OfGrade(2) /\ HasGrade(list, 1)
              \/ className \in OfGrade(3) /\ HasGrade(list, 4)
              \/ className \in OfGrade(4) /\ HasGrade(list, 3)

\* C14 as stated: after a call for two different slots that does not apply
\* the move, other than one whose destination already holds the name, an
\* error message is surfaced; and after an applied move the error is null.
C14_EveryRejectionSurfacesMessage ==
    timetable # Null =>
        \A className \in ClassNames : \A from \in ArgCells : \A to \in ArgCells :
            from # to =>
                LET after == After(className, from, to)
                    alreadyThere == /\ SlotAt(timetable[1], to) # Null
                                    /\ Includes(ListAt(timetable, to), className)
                IN  /\ Accepted(className, from, to) => after.error = Null
                    /\ (~Accepted(className, from, to) /\ ~alreadyThere)
                          => after.error # Null

\* C14, amended: after a move that the capacity rule or a grade rule blocked,
\* the error is that rule's message; after an applied move the error is null,
\* whatever it was; and after every other call (same slot, no timetable, a
\* destination or source slot that does not exist, a name already in the
\* destination or absent from the source) the error is what it was.
C14_MoveMessage ==
    \A className \in ClassNames : \A from \in ArgCells : \A to \in ArgCells :
        LET after == After(className, from, to)
        IN  /\ Accepted(className, from, to) => after.error = Null
            /\ RuleBlocks(className, from, to) =>
                  /\ ~Accepted(className, from, to)
                  /\ after.error \in
                        {Some(CapacityMessage(className, to, maxConcurrentClasses)),
                         Some(Grade12Message), Some(Grade34Message)}
            /\ (~Accepted(className, from, to) /\ ~RuleBlocks(className, from, to))
                  => after.error = error

\* A grade message is surfaced; one move would be applied and clear it, one
\* would be blocked by the capacity rule and replace it, and one names a
\* destination that does not exist and would leave it.
C14_Witness ==
    /\ timetable # Null
    /\ error = Some(Grade12Message)
    /\ \E className \in ClassNames : \E from \in ArgCells : \E to \in ArgCells :
          /\ Accepted(className, from, to)
          /\ After(className, from, to).error = Null
    /\ \E className \in ClassNames : \E from \in ArgCells : \E to \in ArgCells :
          /\ RuleBlocks(className, from, to)
          /\ After(className, from, to).error
                = Some(CapacityMessage(className, to, maxConcurrentClasses))
    /\ \E className \in ClassNames : \E from \in ArgCells : \E to \in ArgCells :
          /\ SlotAt(timetable[1], from) # Null
          /\ Includes(ListAt(timetable, from), className)
          /\ SlotAt(timetable[1], to) = Null
          /\ After(className, from, to).error = error

\* Whether the parameters `a` pass the gate: the grade counts total more than
\* 0, a day is active, and the total is at most maxConcurrentClasses x
\* active-day-count x sessionsPerDay x numberOfRooms.
GateHolds(a) ==
    LET total == a.gradeCounts[1] + a.gradeCounts[2] + a.gradeCounts[3]
                   + a.gradeCounts[4] + a.gradeCounts[5]
    IN  /\ total > 0
        /\ Len(a.includedDays) > 0
        /\ total <= a.maxConcurrentClasses * Len(a.includedDays)
                       * a.sessionsPerDay * a.numberOfRooms

\* C11: every generation request issued carries parameters, those in force
\* at its trigger, that pass the gate; and while the parameters in force do
\* not pass the gate, handleGenerateClick has no step: it changes no state.
C11_GenerationGate ==
    /\ \A i \in 1..Len(pending) : GateHolds(pending[i].args)
    /\ ~GateHolds(GenerateArgs) => ~ENABLED HandleGenerateClick

\* A request was issued with a total equal to the capacity, and since then
\* the user has switched every day off.
C11_Witness ==
    /\ Len(pending) = 1
    /\ LET a == pending[1].args
       IN  /\ a.gradeCounts[5] = 2
           /\ a.maxConcurrentClasses * Len(a.includedDays)
                 * a.sessionsPerDay * a.numberOfRooms = 2
    /\ includedDays = <<>>
    /\ totalClasses > 0

\* Whether, at the level `schema` of a shape descriptor, the declared keys are
\* exactly `keys` and the required keys are exactly the declared ones.
Declares(schema, keys) ==
    /\ schema.type = "OBJECT"
    /\ DOMAIN schema.properties = keys
    /\ Elements(schema.required) = keys

\* Whether the request built from the parameters `a` is as C12 says.
WellShaped(a) ==
    LET request == Request(a)
        schema == request.responseSchema
        rooms == {"Room " \o ToString(i) : i \in 1..a.numberOfRooms}
        days == Elements(a.includedDays)
        slots == {"Slot " \o ToString(i) : i \in 1..a.sessionsPerDay}
    IN  /\ Declares(schema, rooms)
        /\ Cardinality(DOMAIN schema.properties) = a.numberOfRooms
        /\ \A r \in rooms :
              /\ Declares(schema.properties[r], days)
              /\ \A d \in days :
                    /\ Declares(schema.properties[r].properties[d], slots)
                    /\ \A sl \in slots :
                          schema.properties[r].properties[d].properties[sl].type = "ARRAY"
        /\ \A d \in days : d \in Elements(request.contents)
        /\ \A sl \in slots : sl \in Elements(request.contents)

\* C12: for the parameters in force, where a day is active, and for the
\* parameters of every request issued, the shape descriptor has exactly the
\* keys "Room 1" to "Room n", each room exactly the active days, each day
\* exactly "Slot 1" to "Slot s", at every level the required keys are the
\* declared keys, and the brief lists every active day and every slot label.
C12_RequestShape ==
    /\ Len(includedDays) > 0 => WellShaped(GenerateArgs)
    /\ \A i \in 1..Len(pending) : WellShaped(pending[i].args)

\* A request for two rooms, two days and two slots a day has been issued.
C12_Witness ==
    /\ Len(pending) = 1
    /\ LET schema == Request(pending[1].args).responseSchema
       IN  /\ schema.required = <<"Room 1", "Room 2">>
           /\ schema.properties["Room 2"].required = <<"Monday", "Tuesday">>
           /\ schema.properties["Room 2"].properties["Tuesday"].required
                 = <<"Slot 1", "Slot 2">>

\* C15: the editor holds at most one drag candidate; a drag start, from any
\* state, makes the candidate the class dragged with the room, day and slot
\* of its tag; and a drop or a drag end leaves the editor idle (draggedItem
\* null).
C15_DragStateMachine ==
    /\ [](Len(draggedItem) <= 1)
    /\ [][/\ \A className \in ClassNames : \A cell \in ArgCells :
                HandleClassDragStart(className, cell.room, cell.day, cell.slot)
                    => draggedItem' = Some([className |-> className, from |-> cell])
          /\ HandleDragEnd => draggedItem' = Null
          /\ \A cell \in ArgCells :
                HandleDrop(cell.room, cell.day, cell.slot) => draggedItem' = Null]_vars

\* C16: whenever a drop is forwarded to handleMoveClass, the cached verdict
\* is the one handleDragOver computes for the dragged class and the cell
\* dropped on, and handleMoveClass applies the move; and no drop that
\* handleMoveClass would apply is withheld because the cached verdict is
\* false.
C16_HoverAgreesWithValidator ==
    [][\A cell \in ArgCells :
          HandleDrop(cell.room, cell.day, cell.slot) =>
              LET info == dragOverInfo[cell.room]
                  item == draggedItem[1]
              IN  /\ DropForwards(cell.room) =>
                        /\ info[1].day = cell.day
                        /\ info[1].slot = cell.slot
                        /\ info[1].isValid
                              = IsValidDrop(ListAt(timetable, cell), item.className,
                                            maxConcurrentClasses)
                        /\ Accepted(item.className, item.from, cell)
                  /\ (draggedItem # Null /\ info # Null /\ ~info[1].isValid)
                        => ~Accepted(item.className, item.from, cell)]_vars

=============================================================================
